---- MODULE Spec2Model ----
(***************************************************************************)
(* AT45BlockDevice: a byte-addressable block device in front of a          *)
(* page-oriented flash (AT45), with a single-page cache (pagebuffer,       *)
(* last_page).  The flash driver is seen only through read_page and        *)
(* write_page.                                                             *)
(***************************************************************************)
EXTENDS Integers, Sequences, FiniteSets, TLC

\* ------------------------------------------------------------------ bounds
\* The geometries the driver may report: at45.pagesize() in 1 .. MaxPageSize,
\* at45.pages() in 1 .. MaxPages, at most MaxTotalSize bytes in all.
MaxPageSize == 2
MaxPages == 3
MaxTotalSize == 4

\* ------------------------------------------------------- program constants
BD_ERROR_OK == 0
BD_ERROR_NO_MEMORY == 0 - 4002
BD_ERROR_NOT_INITIALIZED == 0 - 4003
\* last_page = 0xffffffff: no page is cached.  The model keeps the sentinel as the
\* largest index it can represent; like 0xffffffff it is above every page index.
NoPage == 2147483647
\* memset(pagebuffer, 0xff, pagesize)
ErasedByte == 255
\* A non-zero code returned by a failing read_page / write_page.
HwError == 0 - 1

Byte == {0, ErasedByte}

Geometries ==
    {g \in (1 .. MaxPageSize) \X (1 .. MaxPages) : g[1] * g[2] <= MaxTotalSize}

VARIABLES
    pagesize,       \* bytes in a page
    totalsize,      \* pagesize * at45.pages()
    flash,          \* the chip: page index -> page contents
    pagebuffer,     \* contents of the memory pagebuffer points to
    pagebuffer_ptr, \* "null", "heap" (from calloc) or "wild" (never assigned)
    last_page,      \* index of the page held in pagebuffer, or NoPage
    init_ret,       \* what the last init() returned: "OK", "NO_MEMORY"; "never" before it
    op,             \* the last call: "none", "init", "deinit", "read", "program",
                    \* "erase"; "undefined" once a call stored through a wild pointer
    addr,           \* its addr argument
    size,           \* its size argument
    a_buffer,       \* program: the source bytes; read: the bytes stored to the destination
    ret,            \* its return value
    trace,          \* the primitive calls and buffer copies it made, in order
    entry_last,     \* last_page when it was entered
    codes,          \* what each read_page / write_page it called returned, in order
    prev,           \* <<op, ret>> of the call before it when that was a read, program
                    \* or erase of the same addr and size; else <<"other", 0>>
    threads,        \* two callers without a lock: for each the call it is in and
                    \* its locals (pc, name, addr, bytes_left, buffer)
    overlapped,     \* a call was entered while the other thread was inside one
    written,        \* some thread has called write_page
    misread,        \* a read copied out bytes that are not those of its page
    miswritten      \* a program wrote a page image that is not its page's

vars == <<pagesize, totalsize, flash, pagebuffer, pagebuffer_ptr, last_page, init_ret,
          op, addr, size, a_buffer, ret, trace, entry_last, codes, prev,
          threads, overlapped, written, misread, miswritten>>

device == <<pagesize, totalsize, flash, pagebuffer, pagebuffer_ptr, last_page, init_ret>>

\* The last call of a single caller.
lastcall == <<op, addr, size, a_buffer, ret, trace, entry_last, codes, prev>>

\* The callers that run side by side.
concurrent == <<threads, overlapped, written, misread, miswritten>>

Threads == {1, 2}

\* A thread outside every call.
Idle == [pc |-> "idle", name |-> "none", addr |-> 0, bytes_left |-> 0, buffer |-> <<>>]

Offsets == 0 .. (pagesize - 1)
ZeroPage == [i \in Offsets |-> 0]

\* ------------------------------------------------------------- primitives
\* What at45.read_page(pagebuffer, page) leaves in the buffer when it returns 0.
ReadPage(fl, page) ==
    IF page \in DOMAIN fl THEN fl[page] ELSE [i \in Offsets |-> ErasedByte]

\* The chip after at45.write_page(data, page) returned 0.  An index past the
\* last page addresses nothing.
WritePage(fl, page, data) ==
    IF page \in DOMAIN fl THEN [fl EXCEPT ![page] = data] ELSE fl

Event(ev, page, data) == [ev |-> ev, page |-> page, data |-> data]

\* ---------------------------------------------------------------- helpers
\* uint32_t page = addr / pagesize
PageOf(a) == a \div pagesize

\* uint32_t offset = addr % pagesize
OffsetOf(a) == a % pagesize

\* Mutant of ChunkLength: one byte per iteration.
ChunkLength_Mut(a, bytes_left) == IF bytes_left > 0 THEN 1 ELSE 0

\* length = pagesize - offset; if (length > bytes_left) length = bytes_left
ChunkLength(a, bytes_left) ==
    LET length == pagesize - OffsetOf(a)
    IN  IF length > bytes_left THEN bytes_left ELSE length

\* Mutant of NeedLoad: the page is fetched on every iteration.
NeedLoad_Mut(last, page) == TRUE

\* if (last_page != page): the page has to be fetched
NeedLoad(last, page) == last # page

\* memcpy(buffer, pagebuffer + offset, length): the bytes handed to the caller
CopyOut(buf, offset, length) ==
    [i \in 1 .. length |-> buf[offset + i - 1]]

\* Mutant of CopyIn: buffer is not advanced from page to page.
CopyIn_Mut(buf, offset, src, pos, length) ==
    [i \in Offsets |->
        IF i >= offset /\ i < offset + length THEN src[(i - offset) + 1]
        ELSE buf[i]]

\* memcpy(pagebuffer + offset, buffer, length); buffer has advanced by pos bytes
CopyIn(buf, offset, src, pos, length) ==
    [i \in Offsets |->
        IF i >= offset /\ i < offset + length THEN src[pos + (i - offset) + 1]
        ELSE buf[i]]

\* What the call before a call of (a, s) was, for prev.
Previous(a, s) ==
    IF op \in {"read", "program", "erase"} /\ addr = a /\ size = s
    THEN <<op, ret>>
    ELSE <<"other", BD_ERROR_OK>>

\* Mutant of Locals: a call starts by dropping the cached page.
Locals_Mut(a, s, buffer) ==
    [addr |-> a, bytes_left |-> s, buffer |-> buffer, pos |-> 0, flash |-> flash,
     pagebuffer |-> pagebuffer, last_page |-> NoPage,
     trace |-> <<>>, calls |-> 0, codes |-> <<>>, ret |-> BD_ERROR_OK]

\* The locals of a call and the fields it works on.
Locals(a, s, buffer) ==
    [addr |-> a, bytes_left |-> s, buffer |-> buffer, pos |-> 0, flash |-> flash,
     pagebuffer |-> pagebuffer, last_page |-> last_page,
     trace |-> <<>>, calls |-> 0, codes |-> <<>>, ret |-> BD_ERROR_OK]

\* if (!pagebuffer) return BD_ERROR_NOT_INITIALIZED
NotInitialized(name, a, s, buffer) ==
    /\ op' = name
    /\ addr' = a
    /\ size' = s
    /\ a_buffer' = buffer
    /\ ret' = BD_ERROR_NOT_INITIALIZED
    /\ trace' = <<>>
    /\ codes' = <<>>
    /\ entry_last' = last_page
    /\ prev' = Previous(a, s)
    /\ UNCHANGED concurrent
    /\ UNCHANGED device

\* pagebuffer was never assigned and is not null: the call goes on to store
\* through it.  What the program does from there on is undefined; the model
\* records the call and stops.
WildStore(a, s, buffer) ==
    /\ op' = "undefined"
    /\ addr' = a
    /\ size' = s
    /\ a_buffer' = buffer
    /\ ret' = BD_ERROR_OK
    /\ trace' = <<>>
    /\ codes' = <<>>
    /\ entry_last' = last_page
    /\ prev' = Previous(a, s)
    /\ UNCHANGED concurrent
    /\ UNCHANGED device

\* Mutant of Returns: a failure of the hardware is reported as one generic code.
Returns_Mut(name, a, s, buffer, r) ==
    /\ op' = name
    /\ addr' = a
    /\ size' = s
    /\ a_buffer' = buffer
    /\ ret' = IF r.ret = BD_ERROR_OK THEN BD_ERROR_OK ELSE 0 - 4001
    /\ trace' = r.trace
    /\ codes' = r.codes
    /\ entry_last' = last_page
    /\ prev' = Previous(a, s)
    /\ UNCHANGED concurrent
    /\ flash' = r.flash
    /\ pagebuffer' = r.pagebuffer
    /\ last_page' = r.last_page
    /\ UNCHANGED <<pagesize, totalsize, pagebuffer_ptr, init_ret>>

\* A call that returns normally.
Returns(name, a, s, buffer, r) ==
    /\ op' = name
    /\ addr' = a
    /\ size' = s
    /\ a_buffer' = buffer
    /\ ret' = r.ret
    /\ trace' = r.trace
    /\ codes' = r.codes
    /\ entry_last' = last_page
    /\ prev' = Previous(a, s)
    /\ UNCHANGED concurrent
    /\ flash' = r.flash
    /\ pagebuffer' = r.pagebuffer
    /\ last_page' = r.last_page
    /\ UNCHANGED <<pagesize, totalsize, pagebuffer_ptr, init_ret>>

\* ------------------------------------------------------------------- read
\* The while loop of read().  st carries the locals and the object's fields;
\* failAt is the ordinal of the primitive call that returns HwError (0: none).
RECURSIVE ReadLoop(_, _)
ReadLoop(failAt, st) ==
    IF st.bytes_left = 0 THEN [st EXCEPT !.ret = BD_ERROR_OK]
    ELSE
      LET page == PageOf(st.addr)
          offset == OffsetOf(st.addr)
          length == ChunkLength(st.addr, st.bytes_left)
          load == NeedLoad(st.last_page, page)
          buf1 == IF load THEN ReadPage(st.flash, page) ELSE st.pagebuffer
          tr1 == IF load
                 THEN Append(st.trace, Event("read_page", page, buf1))
                 ELSE st.trace
          cd1 == IF load THEN Append(st.codes, BD_ERROR_OK) ELSE st.codes
      IN  IF load /\ failAt = st.calls + 1
          THEN [st EXCEPT !.ret = HwError,
                          !.trace = Append(st.trace, Event("read_page", page, st.pagebuffer)),
                          !.codes = Append(st.codes, HwError),
                          !.calls = st.calls + 1]
          ELSE ReadLoop(failAt,
                 [st EXCEPT !.pagebuffer = buf1,
                            !.buffer = st.buffer \o CopyOut(buf1, offset, length),
                            !.trace = Append(tr1, Event("memcpy", page, buf1)),
                            !.calls = IF load THEN st.calls + 1 ELSE st.calls,
                            !.codes = cd1,
                            !.bytes_left = st.bytes_left - length,
                            !.addr = st.addr + length,
                            !.pos = st.pos + length,
                            !.last_page = page])

ReadCall(a, s, failAt) ==
    /\ op # "undefined"
    /\ IF pagebuffer_ptr = "null" THEN NotInitialized("read", a, s, <<>>)
       ELSE IF pagebuffer_ptr = "wild" /\ s > 0 THEN WildStore(a, s, <<>>)
       ELSE \E r \in {ReadLoop(failAt, Locals(a, s, <<>>))} :
                Returns("read", a, s, r.buffer, r)

\* ---------------------------------------------------------------- program
\* Mutant of ProgramLoop_Mut: a failed write_page still records the page as cached.
RECURSIVE ProgramLoop_Mut(_, _)
ProgramLoop_Mut(failAt, st) ==
    IF st.bytes_left = 0 THEN [st EXCEPT !.ret = BD_ERROR_OK]
    ELSE
      LET page == PageOf(st.addr)
          offset == OffsetOf(st.addr)
          length == ChunkLength(st.addr, st.bytes_left)
          load == NeedLoad(st.last_page, page)
          buf1 == IF load THEN ReadPage(st.flash, page) ELSE st.pagebuffer
          tr1 == IF load
                 THEN Append(st.trace, Event("read_page", page, buf1))
                 ELSE st.trace
          cd1 == IF load THEN Append(st.codes, BD_ERROR_OK) ELSE st.codes
          n1 == IF load THEN st.calls + 1 ELSE st.calls
          buf2 == CopyIn(buf1, offset, st.buffer, st.pos, length)
          tr2 == Append(tr1, Event("memcpy", page, buf2))
          tr3 == Append(tr2, Event("write_page", page, buf2))
      IN  IF load /\ failAt = st.calls + 1
          THEN [st EXCEPT !.ret = HwError,
                          !.trace = Append(st.trace, Event("read_page", page, st.pagebuffer)),
                          !.codes = Append(st.codes, HwError),
                          !.calls = st.calls + 1]
          ELSE IF failAt = n1 + 1
          THEN [st EXCEPT !.ret = HwError,
                          !.pagebuffer = buf2,
                          !.last_page = page,
                          !.trace = tr3,
                          !.codes = Append(cd1, HwError),
                          !.calls = n1 + 1]
          ELSE ProgramLoop_Mut(failAt,
                 [st EXCEPT !.pagebuffer = buf2,
                            !.flash = WritePage(st.flash, page, buf2),
                            !.trace = tr3,
                            !.codes = Append(cd1, BD_ERROR_OK),
                            !.calls = n1 + 1,
                            !.bytes_left = st.bytes_left - length,
                            !.addr = st.addr + length,
                            !.pos = st.pos + length,
                            !.last_page = page])

\* The while loop of program().
RECURSIVE ProgramLoop(_, _)
ProgramLoop(failAt, st) ==
    IF st.bytes_left = 0 THEN [st EXCEPT !.ret = BD_ERROR_OK]
    ELSE
      LET page == PageOf(st.addr)
          offset == OffsetOf(st.addr)
          length == ChunkLength(st.addr, st.bytes_left)
          load == NeedLoad(st.last_page, page)
          buf1 == IF load THEN ReadPage(st.flash, page) ELSE st.pagebuffer
          tr1 == IF load
                 THEN Append(st.trace, Event("read_page", page, buf1))
                 ELSE st.trace
          cd1 == IF load THEN Append(st.codes, BD_ERROR_OK) ELSE st.codes
          n1 == IF load THEN st.calls + 1 ELSE st.calls
          buf2 == CopyIn(buf1, offset, st.buffer, st.pos, length)
          tr2 == Append(tr1, Event("memcpy", page, buf2))
          tr3 == Append(tr2, Event("write_page", page, buf2))
      IN  IF load /\ failAt = st.calls + 1
          THEN [st EXCEPT !.ret = HwError,
                          !.trace = Append(st.trace, Event("read_page", page, st.pagebuffer)),
                          !.codes = Append(st.codes, HwError),
                          !.calls = st.calls + 1]
          ELSE IF failAt = n1 + 1
          THEN [st EXCEPT !.ret = HwError,
                          !.pagebuffer = buf2,
                          !.trace = tr3,
                          !.codes = Append(cd1, HwError),
                          !.calls = n1 + 1]
          ELSE ProgramLoop(failAt,
                 [st EXCEPT !.pagebuffer = buf2,
                            !.flash = WritePage(st.flash, page, buf2),
                            !.trace = tr3,
                            !.codes = Append(cd1, BD_ERROR_OK),
                            !.calls = n1 + 1,
                            !.bytes_left = st.bytes_left - length,
                            !.addr = st.addr + length,
                            !.pos = st.pos + length,
                            !.last_page = page])

ProgramCall(buffer, a, s, failAt) ==
    /\ op # "undefined"
    /\ IF pagebuffer_ptr = "null" THEN NotInitialized("program", a, s, buffer)
       ELSE IF pagebuffer_ptr = "wild" /\ s > 0 THEN WildStore(a, s, buffer)
       ELSE \E r \in {ProgramLoop(failAt, Locals(a, s, buffer))} :
                Returns("program", a, s, buffer, r)

\* ------------------------------------------------------------------ erase
\* Mutant of StartPage: the first page that starts inside the range.
StartPage_Mut(a, s) == (a + pagesize - 1) \div pagesize

\* uint32_t start_page = addr / pagesize
StartPage(a, s) == a \div pagesize

\* Mutant of EndPage: the page of the last byte of the range.
EndPage_Mut(a, s) == (a + s - 1) \div pagesize

\* uint32_t end_page = (addr + size) / pagesize
EndPage(a, s) == (a + s) \div pagesize

\* Mutant of ErasedPage: the buffer is cleared to 0.
ErasedPage_Mut == [i \in Offsets |-> 0]

\* memset(pagebuffer, 0xff, pagesize)
ErasedPage == [i \in Offsets |-> ErasedByte]

\* Mutant of EraseLastPage: the cached index survives the erase.
EraseLastPage_Mut(last, start_page, end_page) == last

\* if (last_page >= start_page && last_page <= end_page) last_page = 0xffffffff
EraseLastPage(last, start_page, end_page) ==
    IF last >= start_page /\ last <= end_page THEN NoPage ELSE last

\* for (ix = start_page; ix <= end_page; ix++) write_page(pagebuffer, ix)
RECURSIVE EraseLoop(_, _, _, _)
EraseLoop(failAt, ix, end_page, st) ==
    IF ix > end_page THEN [st EXCEPT !.ret = BD_ERROR_OK]
    ELSE
      LET tr1 == Append(st.trace, Event("write_page", ix, st.pagebuffer))
      IN  IF failAt = st.calls + 1
          THEN [st EXCEPT !.ret = HwError, !.trace = tr1,
                          !.codes = Append(st.codes, HwError), !.calls = st.calls + 1]
          ELSE EraseLoop(failAt, ix + 1, end_page,
                 [st EXCEPT !.flash = WritePage(st.flash, ix, st.pagebuffer),
                            !.trace = tr1,
                            !.codes = Append(st.codes, BD_ERROR_OK),
                            !.calls = st.calls + 1])

Erase(failAt, a, s, st) ==
    LET start_page == StartPage(a, s)
        end_page == EndPage(a, s)
        r == EraseLoop(failAt, start_page, end_page,
                       [st EXCEPT !.pagebuffer = ErasedPage])
    IN  IF r.ret # BD_ERROR_OK THEN r
        ELSE [r EXCEPT !.last_page = EraseLastPage(r.last_page, start_page, end_page)]

EraseCall(a, s, failAt) ==
    /\ op # "undefined"
    /\ IF pagebuffer_ptr = "null" THEN NotInitialized("erase", a, s, <<>>)
       ELSE IF pagebuffer_ptr = "wild" THEN WildStore(a, s, <<>>)
       ELSE \E r \in {Erase(failAt, a, s, Locals(a, s, <<>>))} :
                Returns("erase", a, s, <<>>, r)

\* ------------------------------------------------------------ constructor
\* pagesize, totalsize and last_page are set; pagebuffer is not: it is null or
\* not, as the storage under the object happens to be.
Init ==
    /\ \E g \in Geometries :
         /\ pagesize = g[1]
         /\ totalsize = g[1] * g[2]
         /\ flash \in [0 .. (g[2] - 1) -> [0 .. (g[1] - 1) -> Byte]]
         /\ pagebuffer = [i \in 0 .. (g[1] - 1) |-> 0]
    /\ pagebuffer_ptr \in {"null", "wild"}
    /\ last_page = NoPage
    /\ init_ret = "never"
    /\ op = "none"
    /\ addr = 0
    /\ size = 0
    /\ a_buffer = <<>>
    /\ ret = BD_ERROR_OK
    /\ trace = <<>>
    /\ codes = <<>>
    /\ entry_last = NoPage
    /\ prev = <<"other", BD_ERROR_OK>>
    /\ threads = [t \in Threads |-> Idle]
    /\ overlapped = FALSE
    /\ written = FALSE
    /\ misread = FALSE
    /\ miswritten = FALSE

\* ------------------------------------------------------------------- init
\* calloc either fails (pagebuffer = NULL) or hands out a zeroed page.
InitCall(ok) ==
    /\ op # "undefined"
    /\ pagebuffer_ptr' = IF ok THEN "heap" ELSE "null"
    /\ pagebuffer' = ZeroPage
    /\ init_ret' = IF ok THEN "OK" ELSE "NO_MEMORY"
    /\ op' = "init"
    /\ addr' = 0
    /\ size' = 0
    /\ a_buffer' = <<>>
    /\ ret' = IF ok THEN BD_ERROR_OK ELSE BD_ERROR_NO_MEMORY
    /\ trace' = <<>>
    /\ codes' = <<>>
    /\ entry_last' = last_page
    /\ prev' = <<"other", BD_ERROR_OK>>
    /\ UNCHANGED concurrent
    /\ UNCHANGED <<pagesize, totalsize, flash, last_page>>

\* ----------------------------------------------------------------- deinit
\* Mutant of DeinitCall: deinit gives the page buffer back.
DeinitCall_Mut ==
    /\ op # "undefined"
    /\ op' = "deinit"
    /\ addr' = 0
    /\ size' = 0
    /\ a_buffer' = <<>>
    /\ ret' = BD_ERROR_OK
    /\ trace' = <<>>
    /\ codes' = <<>>
    /\ entry_last' = last_page
    /\ prev' = <<"other", BD_ERROR_OK>>
    /\ UNCHANGED concurrent
    /\ pagebuffer_ptr' = "null"
    /\ last_page' = NoPage
    /\ UNCHANGED <<pagesize, totalsize, flash, pagebuffer, init_ret>>

\* spi.free(); return BD_ERROR_OK.  Nothing of the block device changes.
DeinitCall ==
    /\ op # "undefined"
    /\ op' = "deinit"
    /\ addr' = 0
    /\ size' = 0
    /\ a_buffer' = <<>>
    /\ ret' = BD_ERROR_OK
    /\ trace' = <<>>
    /\ codes' = <<>>
    /\ entry_last' = last_page
    /\ prev' = <<"other", BD_ERROR_OK>>
    /\ UNCHANGED concurrent
    /\ UNCHANGED device

\* ------------------------------------------------------------ the callers
\* The ranges <<addr, size>> a caller may pass: inside the device.
Ranges == {r \in (0 .. (totalsize - 1)) \X (0 .. totalsize) : r[1] + r[2] <= totalsize}

\* The source buffers of s bytes.
Buffers(s) == [1 .. s -> Byte]

DoInit == \E ok \in BOOLEAN : InitCall(ok)
DoDeinit == DeinitCall
DoRead == \E r \in Ranges : ReadCall(r[1], r[2], 0)
DoProgram == \E r \in Ranges : \E b \in Buffers(r[2]) : ProgramCall(b, r[1], r[2], 0)
DoErase == \E r \in Ranges : EraseCall(r[1], r[2], 0)

\* Every primitive call succeeds.
Next == DoRead \/ DoProgram \/ DoErase \/ DoInit \/ DoDeinit

Spec == Init /\ [][Next]_vars

\* The documented use: init is called once.
DoInitOnce == init_ret = "never" /\ DoInit
NextOnce == DoRead \/ DoProgram \/ DoErase \/ DoInitOnce \/ DoDeinit

SpecOnce == Init /\ [][NextOnce]_vars

\* The hardware may fail: the f-th read_page / write_page of a call returns
\* HwError (0: none does).  A transfer makes at most one load and one store
\* for each page of its range; an erase makes one write per page from
\* start_page to end_page.
FailPoints(n) == 0 .. n

\* The number of pages the bytes [a, a + s) lie in.
Touched(a, s) == IF s = 0 THEN 0 ELSE PageOf(a + s - 1) - PageOf(a) + 1

DoReadHw ==
    \E r \in Ranges : \E f \in FailPoints(Touched(r[1], r[2])) :
        ReadCall(r[1], r[2], f)

\* The source buffers of s bytes a caller programs while the hardware may
\* fail: s times the same byte.
Fills(s) == {[i \in 1 .. s |-> c] : c \in Byte}

DoProgramHw ==
    \E r \in Ranges : \E b \in Fills(r[2]) : \E f \in FailPoints(2 * Touched(r[1], r[2])) :
        ProgramCall(b, r[1], r[2], f)
DoEraseHw ==
    \E r \in Ranges :
        \E f \in FailPoints(EndPage(r[1], r[2]) - StartPage(r[1], r[2]) + 1) :
            EraseCall(r[1], r[2], f)

NextHw == DoReadHw \/ DoProgramHw \/ DoEraseHw \/ DoInitOnce \/ DoDeinit

SpecHw == Init /\ [][NextHw]_vars

\* ------------------------------------------------------- two threads
\* read and program called from two threads with no lock around them (the
\* class has none).  A call is a sequence of steps, one per primitive call or
\* buffer copy; the steps of the two threads interleave freely.

\* A thread enters read(a, s) or program(buffer, a, s), s > 0, on a device
\* that init() has set up; it gets past the pagebuffer guard and the loop test.
Begin(t) ==
    /\ threads[t].pc = "idle"
    /\ init_ret = "OK"
    /\ \E name \in {"read", "program"} : \E r \in Ranges :
       \E b \in (IF name = "program" THEN Fills(r[2]) ELSE {<<>>}) :
         /\ r[2] > 0
         /\ threads' = [threads EXCEPT ![t] =
                [pc |-> "load", name |-> name, addr |-> r[1], bytes_left |-> r[2],
                 buffer |-> b]]
    /\ overlapped' = (overlapped \/ \E u \in Threads \ {t} : threads[u].pc # "idle")
    /\ UNCHANGED <<device, lastcall, written, misread, miswritten>>

\* Mutant of Load: a page is fetched only while nothing is cached.
Load_Mut(t) ==
    LET th == threads[t]
        page == PageOf(th.addr)
    IN  /\ th.pc = "load"
        /\ pagebuffer' = IF last_page = NoPage THEN ReadPage(flash, page)
                         ELSE pagebuffer
        /\ threads' = [threads EXCEPT ![t].pc = "copy"]
        /\ UNCHANGED <<pagesize, totalsize, flash, pagebuffer_ptr, last_page, init_ret,
                       lastcall, overlapped, written, misread, miswritten>>

\* if (last_page != page) read_page(pagebuffer, page)
Load(t) ==
    LET th == threads[t]
        page == PageOf(th.addr)
    IN  /\ th.pc = "load"
        /\ pagebuffer' = IF NeedLoad(last_page, page) THEN ReadPage(flash, page)
                         ELSE pagebuffer
        /\ threads' = [threads EXCEPT ![t].pc = "copy"]
        /\ UNCHANGED <<pagesize, totalsize, flash, pagebuffer_ptr, last_page, init_ret,
                       lastcall, overlapped, written, misread, miswritten>>

\* read: memcpy(buffer, pagebuffer + offset, length);
\* program: memcpy(pagebuffer + offset, buffer, length)
Copy(t) ==
    LET th == threads[t]
        page == PageOf(th.addr)
        offset == OffsetOf(th.addr)
        length == ChunkLength(th.addr, th.bytes_left)
    IN  /\ th.pc = "copy"
        /\ IF th.name = "read"
           THEN /\ misread' = (misread \/ CopyOut(pagebuffer, offset, length)
                                            # CopyOut(flash[page], offset, length))
                /\ threads' = [threads EXCEPT ![t].pc = "update"]
                /\ UNCHANGED pagebuffer
           ELSE /\ pagebuffer' = CopyIn(pagebuffer, offset, th.buffer, 0, length)
                /\ threads' = [threads EXCEPT ![t].pc = "store"]
                /\ UNCHANGED misread
        /\ UNCHANGED <<pagesize, totalsize, flash, pagebuffer_ptr, last_page, init_ret,
                       lastcall, overlapped, written, miswritten>>

\* program: write_page(pagebuffer, page)
Store(t) ==
    LET th == threads[t]
        page == PageOf(th.addr)
        offset == OffsetOf(th.addr)
        length == ChunkLength(th.addr, th.bytes_left)
    IN  /\ th.pc = "store"
        /\ flash' = WritePage(flash, page, pagebuffer)
        /\ written' = TRUE
        /\ miswritten' = (miswritten \/ pagebuffer
                             # CopyIn(flash[page], offset, th.buffer, 0, length))
        /\ threads' = [threads EXCEPT ![t].pc = "update"]
        /\ UNCHANGED <<pagesize, totalsize, pagebuffer, pagebuffer_ptr, last_page,
                       init_ret, lastcall, overlapped, misread>>

\* bytes_left -= length; addr += length; buffer += length; last_page = page;
\* then the loop test: the call returns when no byte is left.
Update(t) ==
    LET th == threads[t]
        page == PageOf(th.addr)
        length == ChunkLength(th.addr, th.bytes_left)
    IN  /\ th.pc = "update"
        /\ last_page' = page
        /\ threads' = [threads EXCEPT ![t] =
                IF th.bytes_left - length = 0 THEN Idle
                ELSE [pc |-> "load", name |-> th.name, addr |-> th.addr + length,
                      bytes_left |-> th.bytes_left - length,
                      buffer |-> IF th.name = "program"
                                 THEN SubSeq(th.buffer, length + 1, Len(th.buffer))
                                 ELSE th.buffer]]
        /\ UNCHANGED <<pagesize, totalsize, flash, pagebuffer, pagebuffer_ptr, init_ret,
                       lastcall, overlapped, written, misread, miswritten>>

Step(t) == Begin(t) \/ Load(t) \/ Copy(t) \/ Store(t) \/ Update(t)

NextThreads == DoInitOnce \/ \E t \in Threads : Step(t)

SpecThreads == Init /\ [][NextThreads]_vars

\* ------------------------------------------------- the flat reference view
\* The device as one byte array: the byte at logical address x.
ByteAt(fl, x) == fl[x \div pagesize][x % pagesize]

\* The bytes at [a, a + s).
FlatRead(fl, a, s) == [i \in 1 .. s |-> ByteAt(fl, a + i - 1)]

\* The array with b stored at [a, a + Len(b)) and every other byte kept.
FlatProgram(fl, a, b) ==
    [p \in DOMAIN fl |->
        [o \in Offsets |->
            LET x == p * pagesize + o
            IN  IF x >= a /\ x < a + Len(b) THEN b[x - a + 1] ELSE fl[p][o]]]

IsCall(name) == op = name /\ ret = BD_ERROR_OK

\* ----------------------------------------------------------------- claims
\* C1: a read that returns OK hands back exactly the bytes stored on flash at
\* [addr, addr + size), as a cache-less flat byte array would.
C1_ReadReturnsFlash ==
    IsCall("read") => a_buffer = FlatRead(flash, addr, size)

\* C2: a program that returns OK leaves flash equal to its value before the
\* call with src stored at [addr, addr + size), every other byte unchanged.
C2_ProgramFrame ==
    [][(op' = "program" /\ ret' = BD_ERROR_OK)
         => flash' = FlatProgram(flash, addr', a_buffer')]_vars

\* C3: between calls, when init has succeeded and last_page is not the
\* sentinel, pagebuffer equals the flash contents of page last_page.
C3_CacheValid ==
    (pagebuffer_ptr = "heap" /\ last_page # NoPage)
        => (last_page \in DOMAIN flash /\ pagebuffer = flash[last_page])

\* C4: a program that returns OK, followed at once by a read of the same addr
\* and size that returns OK, hands back the bytes programmed.
C4_RoundTrip ==
    [][(IsCall("program") /\ op' = "read" /\ ret' = BD_ERROR_OK
            /\ addr' = addr /\ size' = size)
         => a_buffer' = a_buffer]_vars

\* A read spanning several pages right after the program of the same range.
C4_Witness ==
    /\ IsCall("read")
    /\ prev = <<"program", BD_ERROR_OK>>
    /\ PageOf(addr + size - 1) > PageOf(addr)
    /\ OffsetOf(addr) > 0

PageAligned(a, s) == a % pagesize = 0 /\ s % pagesize = 0

\* C5: an erase of a page-aligned span that returns OK, followed at once by a
\* read of the same span that returns OK, hands back 0xFF bytes only.
C5_EraseThenRead ==
    (IsCall("read") /\ prev = <<"erase", BD_ERROR_OK>> /\ PageAligned(addr, size))
        => a_buffer = [i \in 1 .. size |-> ErasedByte]

\* Such a read, of at least a page, with a page outside the span cached when
\* the read was entered.
C5_Witness ==
    /\ IsCall("read")
    /\ prev = <<"erase", BD_ERROR_OK>>
    /\ PageAligned(addr, size)
    /\ size > 0
    /\ entry_last # NoPage

\* The erase wrote a whole page of 0xFF to page p.
ErasedByCall(p) ==
    /\ \E i \in 1 .. Len(trace) :
          trace[i] = Event("write_page", p, [o \in Offsets |-> ErasedByte])
    /\ p \in DOMAIN flash => flash[p] = [o \in Offsets |-> ErasedByte]

\* The page of the last byte of [a, a + s).
LastOverlapped(a, s) == (a + s - 1) \div pagesize

\* C6 as stated, for the sizes where the range has a last page: an erase whose
\* size is a multiple of the page size, at any addr, writes 0xFF to the page
\* after the last page its range overlaps.
C6_OneBeyond ==
    (IsCall("erase") /\ size > 0 /\ size % pagesize = 0)
        => ErasedByCall(LastOverlapped(addr, size) + 1)

\* C6 amended: an erase that returns OK, of a page-aligned addr and a size that
\* is a multiple of the page size, writes 0xFF to the page after the last page
\* its range overlaps.
C6_OneBeyondAligned ==
    (IsCall("erase") /\ PageAligned(addr, size))
        => ErasedByCall(LastOverlapped(addr, size) + 1)

\* An erase of one whole page of several bytes, with a page after it on the chip.
C6_Witness ==
    /\ IsCall("erase")
    /\ pagesize > 1
    /\ PageAligned(addr, size)
    /\ size = pagesize
    /\ addr + size < totalsize
    /\ flash[PageOf(addr + size)] = [o \in Offsets |-> ErasedByte]

\* The pages of [a, a + s).
PagesOf(a, s) == IF s = 0 THEN {} ELSE PageOf(a) .. PageOf(a + s - 1)

\* In tr, page p is fetched, and before any copy to or from the buffer for p
\* and any write of p.
LoadedBeforeUse(tr, p) ==
    \E i \in 1 .. Len(tr) :
        /\ tr[i].ev = "read_page"
        /\ tr[i].page = p
        /\ \A j \in 1 .. Len(tr) :
              (tr[j].page = p /\ tr[j].ev \in {"memcpy", "write_page"}) => i < j

\* C7: when page P is cached and an erase whose pages addr/pagesize ..
\* (addr+size)/pagesize contain P returns OK, the next read or program that
\* touches P fetches P before it uses the buffer for P.
C7_ReloadAfterErase ==
    [][(/\ IsCall("erase")
        /\ entry_last >= StartPage(addr, size)
        /\ entry_last <= EndPage(addr, size)
        /\ op' \in {"read", "program"}
        /\ ret' = BD_ERROR_OK
        /\ entry_last \in PagesOf(addr', size'))
         => LoadedBeforeUse(trace', entry_last)]_vars

\* An erase that returned OK and whose pages contain the page cached on entry.
C7_Witness ==
    /\ IsCall("erase")
    /\ entry_last \in DOMAIN flash
    /\ entry_last >= StartPage(addr, size)
    /\ entry_last <= EndPage(addr, size)

Transfer == op \in {"read", "program"} /\ ret = BD_ERROR_OK

NoLoad(tr) == \A i \in 1 .. Len(tr) : tr[i].ev # "read_page"

\* C8: of two consecutive reads or programs that return OK and lie within one
\* page P, the second fetches no page; and a read or program fetches every
\* page of its range other than the cached one before it uses the buffer for it.
C8_CacheReuse ==
    [][/\ (/\ Transfer
           /\ size > 0
           /\ PagesOf(addr, size) = {PageOf(addr)}
           /\ op' \in {"read", "program"}
           /\ ret' = BD_ERROR_OK
           /\ PageOf(addr') = PageOf(addr)
           /\ PagesOf(addr', size') \subseteq {PageOf(addr)})
            => NoLoad(trace')
       /\ (op' \in {"read", "program"} /\ ret' = BD_ERROR_OK)
            => \A q \in PagesOf(addr', size') :
                   q # last_page => LoadedBeforeUse(trace', q)]_vars

\* A program within one page right after a read of the same range: nothing fetched.
C8_Witness ==
    /\ IsCall("program")
    /\ prev = <<"read", BD_ERROR_OK>>
    /\ size > 0
    /\ PagesOf(addr, size) = {PageOf(addr)}
    /\ NoLoad(trace)

\* C9: while init has not been called, or returned BD_ERROR_NO_MEMORY, a read,
\* program or erase returns BD_ERROR_NOT_INITIALIZED, calls no primitive and
\* leaves last_page and flash as they were.
C9_UninitializedGuard ==
    [][(init_ret \in {"never", "NO_MEMORY"} /\ op' \notin {"init", "deinit"})
         => /\ op' \in {"read", "program", "erase"}
            /\ ret' = BD_ERROR_NOT_INITIALIZED
            /\ trace' = <<>>
            /\ last_page' = last_page
            /\ flash' = flash]_vars

\* The pages of the events of one kind, in order.
PagesOfKind(tr, kind) ==
    LET sel == SelectSeq(tr, LAMBDA e : e.ev = kind)
    IN  [i \in 1 .. Len(sel) |-> sel[i].page]

\* The pages of [a, a + s), ascending.
Span(a, s) ==
    [i \in 1 .. (PageOf(a + s - 1) - PageOf(a) + 1) |-> PageOf(a) + i - 1]

Count(seq, x) == Cardinality({i \in 1 .. Len(seq) : seq[i] = x})

\* C10: a read or program of size > 0 that returns OK uses the buffer for
\* exactly the pages of its range, each once and in ascending order; fetches
\* no other page, none twice, and each but the one cached on entry once; and a
\* program writes each page of the range once, in ascending order.
C10_MultiPageSpan ==
    (Transfer /\ size > 0)
        => LET loads == PagesOfKind(trace, "read_page")
               writes == PagesOfKind(trace, "write_page")
           IN  /\ PagesOfKind(trace, "memcpy") = Span(addr, size)
               /\ \A p \in PagesOf(addr, size) :
                     /\ Count(loads, p) <= 1
                     /\ p # entry_last => Count(loads, p) = 1
               /\ \A i \in 1 .. Len(loads) : loads[i] \in PagesOf(addr, size)
               /\ writes = IF op = "program" THEN Span(addr, size) ELSE <<>>

\* A program over three pages, entered with the middle one cached.
C10_Witness ==
    /\ IsCall("program")
    /\ PageOf(addr + size - 1) >= PageOf(addr) + 2
    /\ entry_last = PageOf(addr) + 1

\* ------------------------------------------------------- hardware failures
\* The read_page / write_page calls among the events of a call.
Primitives(tr) == SelectSeq(tr, LAMBDA e : e.ev \in {"read_page", "write_page"})

\* A read, program or erase one of whose primitive calls returned non-zero.
Failed ==
    /\ op \in {"read", "program", "erase"}
    /\ \E i \in 1 .. Len(codes) : codes[i] # BD_ERROR_OK

\* C11: when a read_page or write_page call returns non-zero, the read, program
\* or erase that made it returns that same code, and that call is the last
\* thing the operation did: every call before it returned 0 and no primitive
\* call (and no copy) follows it.
C11_ErrorPropagation ==
    Failed =>
        LET k == CHOOSE i \in 1 .. Len(codes) :
                    codes[i] # BD_ERROR_OK /\ \A j \in 1 .. (i - 1) : codes[j] = BD_ERROR_OK
        IN  /\ ret = codes[k]
            /\ Len(codes) = k
            /\ Len(Primitives(trace)) = k
            /\ trace[Len(trace)].ev \in {"read_page", "write_page"}

\* A program over several pages stopped by its second or a later primitive call,
\* with pages of the range still to go.
C11_Witness ==
    /\ Failed
    /\ op = "program"
    /\ Len(codes) >= 2
    /\ trace[Len(trace)].page < PageOf(addr + size - 1)

\* C12: a program stopped by a hardware error can be repeated: when the same
\* call (same source, addr and size) is made again and every primitive call
\* succeeds, the flash holds the source bytes at [addr, addr + size) and every
\* other byte is as it was, also for ranges over several pages that start
\* inside a page.
C12_RetrySafe ==
    [][(/\ Failed /\ op = "program"
        /\ op' = "program" /\ ret' = BD_ERROR_OK
        /\ addr' = addr /\ size' = size /\ a_buffer' = a_buffer)
       => flash' = FlatProgram(flash, addr, a_buffer)]_vars

\* ----------------------------------------------------------- init, deinit
\* C13: whenever init() has returned BD_ERROR_OK, also a second init() after
\* pages were cached, last_page is the sentinel: no page counts as cached.
C13_InitInvalidates ==
    (op = "init" /\ ret = BD_ERROR_OK) => last_page = NoPage

\* C14: deinit() can be called in any state and any number of times; it returns
\* BD_ERROR_OK and leaves pagebuffer (still allocated), last_page and the
\* flash as they were.  So on an initialized device a read, program or erase
\* that follows a deinit() does not return BD_ERROR_NOT_INITIALIZED.
C14_DeinitKeeps ==
    [][/\ (op # "undefined" => ENABLED DeinitCall)
       /\ (op' = "deinit" =>
              /\ ret' = BD_ERROR_OK
              /\ UNCHANGED <<pagebuffer, pagebuffer_ptr, last_page, flash>>)
       /\ (op = "deinit" /\ init_ret = "OK" /\ op' \in {"read", "program", "erase"}
              => ret' # BD_ERROR_NOT_INITIALIZED)]_vars

\* A deinit() on an initialized device with a page cached.
C14_Witness ==
    /\ op = "deinit"
    /\ prev = <<"other", BD_ERROR_OK>>
    /\ pagebuffer_ptr = "heap"
    /\ last_page # NoPage
    /\ entry_last = last_page

\* ------------------------------------------------------------ erase extent
\* C15: an erase that returns BD_ERROR_OK calls write_page with a page of 0xFF
\* exactly once for each page from addr / page_size to (addr + size) / page_size
\* inclusive, in ascending order, and makes no other primitive call; flash
\* pages outside that range keep their contents; last_page becomes the
\* sentinel when it was inside the range and is unchanged otherwise.
C15_EraseExtent ==
    [][(op' = "erase" /\ ret' = BD_ERROR_OK) =>
         LET first == addr' \div pagesize
             last == (addr' + size') \div pagesize
         IN  /\ trace' = [i \in 1 .. (last - first + 1) |->
                            Event("write_page", first + i - 1,
                                  [o \in Offsets |-> ErasedByte])]
             /\ \A p \in DOMAIN flash :
                    (p < first \/ p > last) => flash'[p] = flash[p]
             /\ last_page' = IF last_page >= first /\ last_page <= last
                             THEN NoPage ELSE last_page]_vars

\* An erase of several pages that left out the cached page, which is not blank.
C15_Witness ==
    /\ IsCall("erase")
    /\ Len(trace) >= 2
    /\ entry_last \in DOMAIN flash
    /\ last_page = entry_last
    /\ flash[entry_last] # [o \in Offsets |-> ErasedByte]

\* at45.pages(): the number of pages of the chip.
PageCount == totalsize \div pagesize

\* C16: for a range with addr + size <= total_size, every page index a read,
\* program or erase passes to read_page or write_page is below the page
\* count; in particular erase(0, total_size) never addresses page page_count.
C16_PageIndexBound ==
    \A i \in 1 .. Len(trace) :
        trace[i].ev \in {"read_page", "write_page"} => trace[i].page < PageCount

\* ------------------------------------------------------- the cached index
\* A read or program of several pages that a hardware error stopped.
Aborted ==
    /\ Failed
    /\ op \in {"read", "program"}
    /\ PageOf(addr + size - 1) > PageOf(addr)

\* The page the failing call was made for.
FailedPage == trace[Len(trace)].page

\* C17 as stated: after a read or program of size > 0 that returned
\* BD_ERROR_OK, last_page is the page of the last byte of the range; after a
\* read or program of several pages stopped by an error at page k, last_page
\* is the page processed before k (its value on entry if k is the first
\* page), and is never k.
C17_CachedIndexNeverK ==
    /\ (Transfer /\ size > 0) => last_page = (addr + size - 1) \div pagesize
    /\ Aborted =>
          /\ last_page = IF FailedPage = PageOf(addr) THEN entry_last ELSE FailedPage - 1
          /\ last_page # FailedPage

\* C17, amended: as above, but last_page is k in one case: k is the first page
\* of the range and was the cached page on entry.
C17_CachedIndex ==
    /\ (Transfer /\ size > 0) => last_page = (addr + size - 1) \div pagesize
    /\ Aborted =>
          /\ last_page = IF FailedPage = PageOf(addr) THEN entry_last ELSE FailedPage - 1
          /\ (last_page = FailedPage <=>
                 (FailedPage = PageOf(addr) /\ entry_last = FailedPage))

\* A program of several pages whose write_page of a later page failed: the
\* buffer holds that page, modified, and last_page names the page before it.
C17_Witness ==
    /\ Aborted
    /\ op = "program"
    /\ trace[Len(trace)].ev = "write_page"
    /\ FailedPage > PageOf(addr)
    /\ pagebuffer = trace[Len(trace)].data
    /\ last_page = FailedPage - 1

\* ------------------------------------------------------ what read leaves
\* C18: a read, whether it succeeds or fails, calls no write_page and leaves
\* the flash as it was; a read or program of size 0 makes no primitive call
\* and leaves pagebuffer and last_page as they were.
C18_ReadNonMutating ==
    [][/\ (op' = "read" =>
              /\ flash' = flash
              /\ \A i \in 1 .. Len(trace') : trace'[i].ev # "write_page")
       /\ ((op' \in {"read", "program"} /\ size' = 0) =>
              /\ trace' = <<>>
              /\ codes' = <<>>
              /\ pagebuffer' = pagebuffer
              /\ last_page' = last_page
              /\ flash' = flash)]_vars

\* A read that loaded a page and then failed on the next one.
C18_Witness ==
    /\ Failed
    /\ op = "read"
    /\ Len(codes) >= 2
    /\ pagebuffer = flash[last_page]
    /\ pagebuffer # ZeroPage

\* A program of size 0 on a device with a page cached.
C18_WitnessEmpty ==
    /\ op = "program"
    /\ size = 0
    /\ ret = BD_ERROR_OK
    /\ last_page # NoPage

\* ------------------------------------------------------------ termination
\* The loop iterations a read or program went through: one copy per complete
\* iteration, and the iteration a failing read_page cut short.
Iterations ==
    Len(SelectSeq(trace, LAMBDA e : e.ev = "memcpy"))
      + (IF Failed /\ trace[Len(trace)].ev = "read_page" THEN 1 ELSE 0)

\* C19: with page_size >= 1 a read or program ends after at most
\* floor((addr+size-1)/page_size) - floor(addr/page_size) + 1 loop iterations,
\* each chunk having at least one byte and at most the bytes left; an erase
\* ends after at most end_page - start_page + 1 write_page calls.
C19_Termination ==
    /\ pagesize >= 1
    /\ \A a \in 0 .. (totalsize - 1) : \A left \in 1 .. (totalsize - a) :
          ChunkLength(a, left) >= 1 /\ ChunkLength(a, left) <= left
    /\ (op \in {"read", "program"} /\ size > 0) =>
          Iterations <= ((addr + size - 1) \div pagesize) - (addr \div pagesize) + 1
    /\ (op \in {"read", "program"} /\ size = 0) => Iterations = 0
    /\ op = "erase" =>
          Len(Primitives(trace)) <= ((addr + size) \div pagesize) - (addr \div pagesize) + 1

\* A program that went through as many iterations as the bound allows, over
\* more than one page; and it was a retry of a failed one.
C19_Witness ==
    /\ IsCall("program")
    /\ size > 0
    /\ Iterations = ((addr + size - 1) \div pagesize) - (addr \div pagesize) + 1
    /\ Iterations >= 2
    /\ prev = <<"program", HwError>>

\* ------------------------------------------------------------ concurrency
\* No thread is inside a call.
Quiet == \A t \in Threads : threads[t].pc = "idle"

\* C20: the class has no lock.  Two threads whose read / program calls are
\* interleaved step by step (load, copy, store and last_page update are steps
\* of their own) reach a state where a read has returned the bytes of another
\* page, or a program has written another page's image, with no hardware
\* error (C20_Witness, C20_WitnessProgram).  It takes overlapping calls: as
\* long as no call was entered while another was running, no read and no
\* program went wrong and between calls the buffer holds the cached page.
C20_OnlyWhenOverlapped ==
    ~overlapped =>
        /\ ~misread
        /\ ~miswritten
        /\ (Quiet /\ last_page # NoPage) =>
              (last_page \in DOMAIN flash /\ pagebuffer = flash[last_page])

\* Two threads that only read: nothing was ever written to the flash, and a
\* read has copied out bytes that are not those of the page it asked for.
C20_Witness ==
    /\ misread
    /\ ~written
    /\ overlapped
    /\ \A t \in Threads : threads[t].name # "program"

\* A program next to a read: the program has written a page image that is not
\* its page with the source bytes merged in.
C20_WitnessProgram ==
    /\ miswritten
    /\ ~misread
    /\ \E t \in Threads : threads[t].name = "read"
    /\ \E t \in Threads : threads[t].name = "program" /\ threads[t].pc = "update"
====
